---------------------------- MODULE Spec2Model ----------------------------
(***************************************************************************)
(* Model of dicognito's command line driver, src/dicognito/__main__.py:    *)
(* main() resolves each source (file, directory or glob) lazily into       *)
(* candidate files, reads each through pydicom, anonymizes it, saves it    *)
(* (in place or into --output-directory) and collects one ConvertedStudy   *)
(* per distinct (AccessionNumber, PatientID, PatientName).                 *)
(*                                                                         *)
(* pydicom, the Anonymizer and the operating system are outside the        *)
(* repository: they are modelled by the outcomes their calls can have      *)
(* (a dataset, InvalidDicomError, any other exception).                    *)
(***************************************************************************)
EXTENDS Integers, Sequences, FiniteSets, Bags, TLC

VARIABLES
    fs,             \* the filesystem: path -> entry
    fs0,            \* the filesystem when main() was entered (never changes)
    sources,        \* args.sources
    outdir,         \* args.output_directory (NoPath when not given)
    pc,             \* position of main()
    srcIdx,         \* index of the source the outer for loop is at
    work,           \* the suspended generator get_files_from_source(source)
    log,            \* one record per candidate file the generator yielded
    registry,       \* converted_studies
    makedirsCalls,  \* number of calls of os.makedirs
    error           \* the exception that left main(), "none" if none

vars == <<fs, fs0, sources, outdir, pc, srcIdx, work, log, registry,
          makedirsCalls, error>>

(***************************************************************************)
(* Bounds.                                                                 *)
(***************************************************************************)
\* Depth of nested get_files_from_source generators Python allows before it
\* raises RecursionError (sys.getrecursionlimit(), 1000 in CPython).
RecursionLimit == 3

(***************************************************************************)
(* Paths are sequences of components; <<>> stands for None.                *)
(***************************************************************************)
NoPath == <<>>

PathSeq ==
    << <<"in">>, <<"in", "a">>, <<"in", "l">>, <<"in", "sub">>,
       <<"in", "sub", "b">>,
       <<"o">>, <<"o", "d">>,
       <<"o", "d", "u1.dcm">>, <<"o", "d", "u2.dcm">>,
       <<"in", "u1.dcm">>, <<"in", "u2.dcm">>,
       <<"x">> >>

Paths == {PathSeq[i] : i \in 1..Len(PathSeq)}

dirname(p) == SubSeq(p, 1, Len(p) - 1)

\* os.path.join(dir, name) for a relative name
join(dir, name) == Append(dir, name)

IsUnder(d, p) == Len(p) > Len(d) /\ SubSeq(p, 1, Len(d)) = d

(***************************************************************************)
(* Datasets: records whose fields are the header elements present.         *)
(* PatientName holds a PersonName object, not a string.                    *)
(***************************************************************************)
PersonName(s) == [text |-> s]

Original(uid, px) ==
    [SOPInstanceUID |-> uid, AccessionNumber |-> "acc0", PatientID |-> "pat0",
     PatientName |-> PersonName("Doe^John"), PixelData |-> px]

\* What is left of the header of a file that is not DICOM when it is parsed
\* anyway.
Junk == [PixelData |-> "junk"]

\* The dataset slot of a candidate that has not been read.
NoDataset == [unread |-> TRUE]

\* The header values Anonymizer.anonymize can leave in a dataset.
AnonHeaders ==
    { [SOPInstanceUID |-> "u1", AccessionNumber |-> "A1", PatientID |-> "P1",
       PatientName |-> PersonName("N1")],
      [SOPInstanceUID |-> "u2", AccessionNumber |-> "A1", PatientID |-> "P1",
       PatientName |-> PersonName("N1")],
      [SOPInstanceUID |-> "u1", PatientID |-> "P2"],
      [AccessionNumber |-> "A2", PatientID |-> "P2",
       PatientName |-> PersonName("N2")] }

(***************************************************************************)
(* Filesystem entries.                                                     *)
(*   absent : no such name                                                 *)
(*   dir    : a directory                                                  *)
(*   file   : a regular file; fmt "dicom" has the 128 byte preamble and    *)
(*            the DICM marker, "nopreamble" is a dataset without them,     *)
(*            "garbage" is not DICOM at all                                *)
(*   other  : a name that exists but is neither (dangling symlink, FIFO,   *)
(*            socket, device)                                              *)
(***************************************************************************)
Absent == [kind |-> "absent"]
Dir == [kind |-> "dir"]
Other == [kind |-> "other"]
File(fmt, ds) == [kind |-> "file", fmt |-> fmt, ds |-> ds]

KindOf(f, p) == IF p \in DOMAIN f THEN f[p].kind ELSE "absent"

isfile(f, p) == KindOf(f, p) = "file"
isdir(f, p) == KindOf(f, p) = "dir"
lexists(f, p) == KindOf(f, p) # "absent"

\* The input tree: in/a varies, in/l may be a dangling symlink.
InputTrees ==
    { [p \in {<<"in">>, <<"in", "a">>, <<"in", "l">>, <<"in", "sub">>,
              <<"in", "sub", "b">>, <<"x">>} |->
         CASE p = <<"in">> -> Dir
           [] p = <<"in", "a">> -> File(fa, IF fa = "garbage" THEN Junk
                                            ELSE Original("o1", "px1"))
           [] p = <<"in", "l">> -> l
           [] p = <<"in", "sub">> -> Dir
           [] p = <<"in", "sub", "b">> -> File("dicom", Original("o2", "px2"))
           [] OTHER -> Other]
      : fa \in {"dicom", "nopreamble", "garbage"}, l \in {Absent, Other} }

\* The output side: nothing there, o/d there and empty, o/d holding the
\* result of an earlier run, or a regular file o in the way.
OutputTrees ==
    LET None == [p \in {<<"o">>, <<"o", "d">>, <<"o", "d", "u1.dcm">>} |-> Absent]
    IN  { None,
          [None EXCEPT ![<<"o">>] = Dir, ![<<"o", "d">>] = Dir],
          [None EXCEPT ![<<"o">>] = Dir, ![<<"o", "d">>] = Dir,
                       ![<<"o", "d", "u1.dcm">>] =
                           File("dicom", [SOPInstanceUID |-> "u1",
                                          AccessionNumber |-> "A0",
                                          PatientID |-> "P0",
                                          PatientName |-> PersonName("N0"),
                                          PixelData |-> "px3"])],
          [None EXCEPT ![<<"o">>] = File("garbage", Junk)] }

Snapshots ==
    { [p \in Paths |-> IF p \in DOMAIN i THEN i[p]
                       ELSE IF p \in DOMAIN o THEN o[p] ELSE Absent]
      : i \in InputTrees, o \in OutputTrees }

SourceLists ==
    { << <<"in">> >>,
      << <<"in", "a">> >>,
      << <<"in", "*">> >>,
      << <<"nomatch", "*">> >>,
      << <<"nomatch">>, <<"in", "a">> >>,
      << <<"x">> >>,
      << <<"in", "a">>, <<"in", "sub">> >>,
      << <<"in", "a">>, <<"in", "a">> >>,
      << <<"o", "d">>, <<"in", "sub">> >>,
      << <<"in", "sub">>, <<"o", "*">> >> }

OutputDirectories == {NoPath, <<"o", "d">>}

Init ==
    /\ fs \in Snapshots
    /\ fs0 = fs
    /\ sources \in SourceLists
    /\ outdir \in OutputDirectories
    /\ pc = "start"
    /\ srcIdx = 0
    /\ work = <<>>
    /\ log = <<>>
    /\ registry = EmptyBag
    /\ makedirsCalls = 0
    /\ error = "none"


(***************************************************************************)
(* get_files_from_source: a generator.  Its suspended state is the list of *)
(* what it still has to do, first thing first:                             *)
(*   expand p : the body of get_files_from_source(p), at nesting depth     *)
(*   walk p   : os.walk has still to list directory p                      *)
(*   yield p  : p is the next path handed to the loop of main()            *)
(***************************************************************************)
Item(op, p, depth) == [op |-> op, p |-> p, depth |-> depth]

Items(op, ps, depth) == [i \in 1..Len(ps) |-> Item(op, ps[i], depth)]

\* glob.has_magic
has_magic(src) == \E i \in 1..Len(src) : src[i] = "*"

\* glob.glob(src): a name without wildcard matches itself when it exists in
\* any form (os.path.lexists); "dir/*" matches every entry of dir.
glob(f, src) ==
    IF has_magic(src)
    THEN IF src[Len(src)] = "*" /\ isdir(f, dirname(src))
         THEN SelectSeq(PathSeq,
                        LAMBDA p : dirname(p) = dirname(src) /\ lexists(f, p))
         ELSE <<>>
    ELSE IF lexists(f, src) THEN <<src>> ELSE <<>>

\* One (dirpath, dirnames, filenames) of os.walk: filenames are the entries
\* that are not directories, whatever else they are.
filenames(f, d) ==
    SelectSeq(PathSeq, LAMBDA p : dirname(p) = d /\ lexists(f, p) /\ ~isdir(f, p))

dirnames(f, d) ==
    SelectSeq(PathSeq, LAMBDA p : dirname(p) = d /\ isdir(f, p))

\* The branch get_files_from_source takes for a source.
SourceBranch(f, src) ==
    IF isfile(f, src) THEN "file"
    ELSE IF isdir(f, src) THEN "dir"
    ELSE "glob"

(***************************************************************************)
(* Exceptions.  The try block of main() has one handler.                   *)
(***************************************************************************)
IsCaughtNone(exc) == FALSE

IsCaughtAll(exc) == TRUE

IsCaught(exc) == exc = "InvalidDicomError"

\* Where main() goes when exc is raised inside the try block.
AfterRaise(exc) == IF IsCaught(exc) THEN "gen" ELSE "aborted"

ErrorAfterRaise(exc) == IF IsCaught(exc) THEN error ELSE exc

(***************************************************************************)
(* The log: one record per candidate.                                      *)
(***************************************************************************)
Candidate(src, p) ==
    [src |-> src, path |-> p, fmt |-> "unread", read |-> FALSE,
     ds |-> NoDataset, anonymized |-> FALSE, target |-> NoPath,
     written |-> FALSE, recorded |-> FALSE, exc |-> "none"]

cur == log[Len(log)]

SetCur(rec) == [log EXCEPT ![Len(log)] = rec]

(***************************************************************************)
(* ensure_output_directory_exists                                          *)
(***************************************************************************)
NeedsMakedirsAlways(dir, f) == dir # NoPath

NeedsMakedirs(dir, f) == dir # NoPath /\ ~isdir(f, dir)

Prefixes(p) == {SubSeq(p, 1, n) : n \in 1..Len(p)}

\* os.makedirs can succeed only when nothing but directories is in the way.
CanMakedirs(f, dir) ==
    /\ ~lexists(f, dir)
    /\ \A q \in Prefixes(dir) : KindOf(f, q) \in {"absent", "dir"}

makedirs(f, dir) == [p \in DOMAIN f |-> IF p \in Prefixes(dir) THEN Dir ELSE f[p]]

EnsureOutputDirectory ==
    /\ pc = "start"
    /\ IF NeedsMakedirs(outdir, fs)
       THEN /\ makedirsCalls' = makedirsCalls + 1
            /\ \/ /\ CanMakedirs(fs, outdir)
                  /\ fs' = makedirs(fs, outdir)
                  /\ pc' = "loop"
                  /\ error' = error
               \/ /\ fs' = fs
                  /\ pc' = "aborted"
                  /\ error' = "OSError"
       ELSE /\ pc' = "loop"
            /\ UNCHANGED <<fs, makedirsCalls, error>>
    /\ UNCHANGED <<fs0, sources, outdir, srcIdx, work, log, registry>>

(***************************************************************************)
(* for source in args.sources: for file in get_files_from_source(source)   *)
(***************************************************************************)
NextSource ==
    /\ pc = "loop"
    /\ srcIdx < Len(sources)
    /\ srcIdx' = srcIdx + 1
    /\ work' = <<Item("expand", sources[srcIdx + 1], 1)>>
    /\ pc' = "gen"
    /\ UNCHANGED <<fs, fs0, sources, outdir, log, registry, makedirsCalls, error>>

\* The generator runs the body of get_files_from_source for one source.
Expand ==
    /\ pc = "gen"
    /\ work # <<>>
    /\ Head(work).op = "expand"
    /\ LET src == Head(work).p
           depth == Head(work).depth
           branch == SourceBranch(fs, src)
       IN  IF depth > RecursionLimit
           THEN /\ pc' = "aborted"
                /\ error' = "RecursionError"
                /\ work' = work
           ELSE /\ pc' = pc
                /\ error' = error
                /\ work' =
                     CASE branch = "file" ->
                            <<Item("yield", src, depth)>> \o Tail(work)
                       [] branch = "dir" ->
                            <<Item("walk", src, depth)>> \o Tail(work)
                       [] OTHER ->
                            Items("expand", glob(fs, src), depth + 1)
                            \o Tail(work)
    /\ UNCHANGED <<fs, fs0, sources, outdir, srcIdx, log, registry, makedirsCalls>>

\* os.walk lists one directory: its files are yielded, its subdirectories
\* are listed when the walk gets to them.
Walk ==
    /\ pc = "gen"
    /\ work # <<>>
    /\ Head(work).op = "walk"
    /\ LET d == Head(work).p
           depth == Head(work).depth
       IN  work' = Items("yield", filenames(fs, d), depth)
                   \o Items("walk", dirnames(fs, d), depth)
                   \o Tail(work)
    /\ UNCHANGED <<fs, fs0, sources, outdir, pc, srcIdx, log, registry,
                   makedirsCalls, error>>

\* The generator hands the next file to the loop body.
Yield ==
    /\ pc = "gen"
    /\ work # <<>>
    /\ Head(work).op = "yield"
    /\ log' = Append(log, Candidate(srcIdx, Head(work).p))
    /\ work' = Tail(work)
    /\ pc' = "read"
    /\ UNCHANGED <<fs, fs0, sources, outdir, srcIdx, registry, makedirsCalls, error>>

\* The generator is exhausted: back to the loop over the sources.
SourceExhausted ==
    /\ pc = "gen"
    /\ work = <<>>
    /\ pc' = "loop"
    /\ UNCHANGED <<fs, fs0, sources, outdir, srcIdx, work, log, registry,
                   makedirsCalls, error>>


(***************************************************************************)
(* pydicom.dcmread(file, force=False)                                      *)
(***************************************************************************)
dcmread_force_True == TRUE

\* The force argument main() passes.
dcmread_force == FALSE

\* dcmread on a regular file: without force a file that lacks the preamble
\* and DICM marker raises InvalidDicomError; with force it is parsed anyway.
dcmread(entry, force) ==
    CASE entry.kind # "file" -> [exc |-> "OSError", ds |-> NoDataset]
      [] entry.kind = "file" /\ entry.fmt = "dicom" ->
            [exc |-> "none", ds |-> entry.ds]
      [] entry.kind = "file" /\ entry.fmt # "dicom" /\ force ->
            [exc |-> "none", ds |-> entry.ds]
      [] OTHER -> [exc |-> "InvalidDicomError", ds |-> NoDataset]

FmtOf(entry) == IF entry.kind = "file" THEN entry.fmt ELSE "none"

\* with pydicom.dcmread(file, force=False) as dataset
ReadFile ==
    /\ pc = "read"
    /\ \E r \in {dcmread(fs[cur.path], dcmread_force),
                 [exc |-> "OSError", ds |-> NoDataset]} :
          IF r.exc = "none"
          THEN /\ log' = SetCur([cur EXCEPT !.read = TRUE, !.ds = r.ds,
                                            !.fmt = FmtOf(fs[cur.path])])
               /\ pc' = "anonymize"
               /\ error' = error
          ELSE /\ log' = SetCur([cur EXCEPT !.exc = r.exc,
                                   !.fmt = IF r.exc = "OSError" THEN "unread"
                                           ELSE FmtOf(fs[cur.path])])
               /\ pc' = AfterRaise(r.exc)
               /\ error' = ErrorAfterRaise(r.exc)
    /\ UNCHANGED <<fs, fs0, sources, outdir, srcIdx, work, registry, makedirsCalls>>

(***************************************************************************)
(* anonymizer.anonymize(dataset): replaces the header, keeps the pixels.   *)
(***************************************************************************)
WithPixels(h, ds) ==
    [f \in DOMAIN h \cup {"PixelData"} |->
        IF f = "PixelData" THEN ds.PixelData ELSE h[f]]

Anonymize ==
    /\ pc = "anonymize"
    /\ \/ \E h \in AnonHeaders :
             /\ log' = SetCur([cur EXCEPT !.ds = WithPixels(h, cur.ds),
                                         !.anonymized = TRUE])
             /\ pc' = "filename"
             /\ error' = error
       \/ /\ log' = SetCur([cur EXCEPT !.exc = "AnonymizeError"])
          /\ pc' = AfterRaise("AnonymizeError")
          /\ error' = ErrorAfterRaise("AnonymizeError")
    /\ UNCHANGED <<fs, fs0, sources, outdir, srcIdx, work, registry, makedirsCalls>>

(***************************************************************************)
(* calculate_output_filename                                               *)
(***************************************************************************)
HasUID(ds) == "SOPInstanceUID" \in DOMAIN ds

calculate_output_filename_sibling(file, dir, ds) ==
    IF HasUID(ds) THEN join(dirname(file), ds.SOPInstanceUID \o ".dcm") ELSE file

calculate_output_filename_inplace(file, dir, ds) == file

calculate_output_filename(file, dir, ds) ==
    IF dir # NoPath THEN join(dir, ds.SOPInstanceUID \o ".dcm") ELSE file

\* dataset.SOPInstanceUID raises AttributeError when the element is missing.
CalculateOutputFilename ==
    /\ pc = "filename"
    /\ IF outdir # NoPath /\ ~HasUID(cur.ds)
       THEN /\ log' = SetCur([cur EXCEPT !.exc = "AttributeError"])
            /\ pc' = AfterRaise("AttributeError")
            /\ error' = ErrorAfterRaise("AttributeError")
       ELSE /\ log' = SetCur([cur EXCEPT !.target =
                                calculate_output_filename(cur.path, outdir, cur.ds)])
            /\ pc' = "save"
            /\ error' = error
    /\ UNCHANGED <<fs, fs0, sources, outdir, srcIdx, work, registry, makedirsCalls>>

(***************************************************************************)
(* dataset.save_as(output_file, write_like_original=False)                 *)
(***************************************************************************)
CanWrite(f, p) ==
    /\ p \in DOMAIN f
    /\ KindOf(f, p) \in {"absent", "file"}
    /\ isdir(f, dirname(p))

\* A write that fails may have failed before the file was opened (nothing
\* changes) or after (the target is left truncated).
SaveAs ==
    /\ pc = "save"
    /\ \/ /\ CanWrite(fs, cur.target)
          /\ fs' = [fs EXCEPT ![cur.target] = File("dicom", cur.ds)]
          /\ log' = SetCur([cur EXCEPT !.written = TRUE])
          /\ pc' = "record"
          /\ error' = error
       \/ /\ \/ fs' = fs
             \/ /\ CanWrite(fs, cur.target)
                /\ fs' = [fs EXCEPT ![cur.target] = File("garbage", Junk)]
          /\ log' = SetCur([cur EXCEPT !.exc = "OSError"])
          /\ pc' = AfterRaise("OSError")
          /\ error' = ErrorAfterRaise("OSError")
    /\ UNCHANGED <<fs0, sources, outdir, srcIdx, work, registry, makedirsCalls>>

(***************************************************************************)
(* converted_studies.add(ConvertedStudy(...))                              *)
(***************************************************************************)
Get(ds, field, default) == IF field \in DOMAIN ds THEN ds[field] ELSE default

\* str(dataset.get("PatientName", ""))
PatientNameStr(ds) ==
    IF "PatientName" \in DOMAIN ds THEN ds.PatientName.text ELSE ""

ConvertedStudy(ds) ==
    [AccessionNumber |-> Get(ds, "AccessionNumber", ""),
     PatientID |-> Get(ds, "PatientID", ""),
     PatientName |-> PatientNameStr(ds)]

AddStudyAppend(reg, study) == reg (+) SetToBag({study})

\* set.add: a value already in the set is not added again.
AddStudy(reg, study) ==
    IF BagIn(study, reg) THEN reg ELSE reg (+) SetToBag({study})

Record ==
    /\ pc = "record"
    /\ registry' = AddStudy(registry, ConvertedStudy(cur.ds))
    /\ log' = SetCur([cur EXCEPT !.recorded = TRUE])
    /\ pc' = "gen"
    /\ UNCHANGED <<fs, fs0, sources, outdir, srcIdx, work, makedirsCalls, error>>

\* The loop over the sources is over; main() goes on to print the summary,
\* which changes nothing modelled here.
Finish ==
    /\ pc = "loop"
    /\ srcIdx = Len(sources)
    /\ pc' = "done"
    /\ UNCHANGED <<fs, fs0, sources, outdir, srcIdx, work, log, registry,
                   makedirsCalls, error>>

Next ==
    \/ EnsureOutputDirectory
    \/ NextSource
    \/ Expand
    \/ Walk
    \/ Yield
    \/ SourceExhausted
    \/ ReadFile
    \/ Anonymize
    \/ CalculateOutputFilename
    \/ SaveAs
    \/ Record
    \/ Finish

Spec == Init /\ [][Next]_vars


(***************************************************************************)
(* Properties.                                                             *)
(***************************************************************************)
Idx == 1..Len(log)

Skipped(i) == log[i].exc = "InvalidDicomError"

\* The candidate's processing ended with an exception other than
\* InvalidDicomError.
Fatal(i) == log[i].exc \notin {"none", "InvalidDicomError"}

Completed(i) ==
    log[i].read /\ log[i].anonymized /\ log[i].written /\ log[i].recorded

\* A write to the target of candidate j was begun for a later candidate.
LaterWriteTo(j) ==
    \E k \in Idx : k > j /\ log[k].target = log[j].target

RecordedStudies == {ConvertedStudy(log[i].ds) : i \in {j \in Idx : log[j].recorded}}

\* C1: a candidate whose read raises InvalidDicomError is skipped (not
\* anonymized, no output file chosen or written, no record added), the
\* exception never leaves main(), and a run that ends normally has consumed
\* every source to the end and has read every candidate, each recognized one
\* being anonymized, written and recorded.
C1_SkipAndContinue ==
    /\ \A i \in Idx :
          Skipped(i) =>
             /\ ~log[i].read
             /\ ~log[i].anonymized
             /\ log[i].target = NoPath
             /\ ~log[i].written
             /\ ~log[i].recorded
    /\ error # "InvalidDicomError"
    /\ pc = "done" =>
          /\ work = <<>>
          /\ srcIdx = Len(sources)
          /\ \A i \in Idx : Skipped(i) \/ Completed(i)

C1_Witness ==
    /\ pc = "done"
    /\ \E i, j \in Idx : i < j /\ Skipped(i) /\ Completed(j)

\* C2: an exception other than InvalidDicomError raised while a candidate is
\* processed leaves main() at that candidate: it is the last candidate ever
\* read, it adds no record, and every file written before it is still a
\* regular file holding what was written (unless a later write went to the
\* same path).
C2_AbortOnOtherFailure ==
    /\ \A i \in Idx :
          Fatal(i) =>
             /\ pc = "aborted"
             /\ error = log[i].exc
             /\ i = Len(log)
             /\ ~log[i].recorded
    /\ pc = "aborted" =>
          \A j \in Idx :
             log[j].written =>
                /\ isfile(fs, log[j].target)
                /\ ~LaterWriteTo(j) => fs[log[j].target] = File("dicom", log[j].ds)

C2_Witness ==
    /\ pc = "aborted"
    /\ Len(log) >= 2
    /\ log[1].written
    /\ Fatal(Len(log))
    /\ log[Len(log)].anonymized

\* C3: converted_studies never holds a study twice, it holds exactly the
\* studies of the candidates recorded so far, and at the end of the run it
\* has one element per distinct (AccessionNumber, PatientID, PatientName) of
\* the files processed.
C3_RegistryDeduplicates ==
    /\ \A r \in BagToSet(registry) : CopiesIn(r, registry) = 1
    /\ BagToSet(registry) = RecordedStudies
    /\ pc = "done" => BagCardinality(registry) = Cardinality(RecordedStudies)

C3_Witness ==
    /\ pc = "done"
    /\ \E i, j \in Idx :
          /\ i # j
          /\ Completed(i)
          /\ Completed(j)
          /\ log[i].ds # log[j].ds
          /\ ConvertedStudy(log[i].ds) = ConvertedStudy(log[j].ds)
    /\ BagCardinality(registry) = 1


\* os.makedirs failed: main() was left before the loop over the sources.
SetupFailed == pc = "aborted" /\ srcIdx = 0

\* C4 (as stated): with an output directory configured, the directory is
\* created exactly once, whatever the run.
C4_CreatedExactlyOnce ==
    (outdir # NoPath /\ pc # "start") => makedirsCalls = 1

\* C4 (amended): with an output directory configured, os.makedirs is called
\* once when the directory does not exist yet and not at all when it does,
\* in either case before the first candidate is yielded, so that while any
\* candidate is read or written the directory and its parents exist; when
\* the creation fails the run is over with no candidate read and the
\* filesystem as it was.
C4_OutputDirectoryEnsuredFirst ==
    outdir # NoPath =>
       /\ pc = "start" => makedirsCalls = 0 /\ log = <<>>
       /\ pc # "start" => makedirsCalls = IF isdir(fs0, outdir) THEN 0 ELSE 1
       /\ (pc # "start" /\ ~SetupFailed) =>
             \A q \in Prefixes(outdir) : isdir(fs, q)
       /\ SetupFailed => log = <<>> /\ fs = fs0 /\ error = "OSError"

C4_Witness ==
    /\ outdir # NoPath
    /\ ~isdir(fs0, <<"o">>)
    /\ makedirsCalls = 1
    /\ Len(log) >= 2
    /\ log[1].written
    /\ log[2].written

\* C5: without an output directory every output file chosen is the
\* candidate's own path, os.makedirs is never called, and every path is of
\* the same kind (absent, file, directory, other) as when the run began.
C5_InPlaceKeepsPaths ==
    outdir = NoPath =>
       /\ \A i \in Idx : log[i].target \in {NoPath, log[i].path}
       /\ \A p \in Paths : KindOf(fs, p) = KindOf(fs0, p)
       /\ makedirsCalls = 0

C5_Witness ==
    /\ outdir = NoPath
    /\ \E i \in Idx :
          /\ log[i].written
          /\ fs[log[i].path] = File("dicom", log[i].ds)
          /\ fs[log[i].path] # fs0[log[i].path]

\* C6: with an output directory, every output file chosen is
\* <output directory>/<SOPInstanceUID of the anonymized dataset>.dcm, and
\* the run changes nothing on disk but those files and the directory.
C6_OutputNamedByUID ==
    outdir # NoPath =>
       /\ \A i \in Idx :
             log[i].target # NoPath =>
                /\ log[i].anonymized
                /\ HasUID(log[i].ds)
                /\ log[i].target = outdir \o <<log[i].ds.SOPInstanceUID \o ".dcm">>
       /\ \A p \in Paths :
             fs[p] # fs0[p] =>
                \/ p \in Prefixes(outdir)
                \/ \E i \in Idx : log[i].target = p

C6_Witness ==
    /\ outdir # NoPath
    /\ \E i \in Idx :
          /\ log[i].written
          /\ log[i].target = <<"o", "d", "u2.dcm">>
          /\ fs[log[i].target] = File("dicom", log[i].ds)

\* C7: with an output directory, every candidate that was a file when the
\* run began still has the content it had then.
C7_InputsUntouched ==
    outdir # NoPath =>
       \A i \in Idx :
          isfile(fs0, log[i].path) => fs[log[i].path] = fs0[log[i].path]

(***************************************************************************)
(* What the resolver is to yield, stated on the filesystem and not on the  *)
(* generator.                                                              *)
(***************************************************************************)
RegularFilesUnder(f, d) == {p \in Paths : IsUnder(d, p) /\ isfile(f, p)}

ExpansionOf(f, m) ==
    IF isfile(f, m) THEN {m}
    ELSE IF isdir(f, m) THEN RegularFilesUnder(f, m)
    ELSE {}

Range(s) == {s[i] : i \in 1..Len(s)}

\* The paths yielded so far for the k-th source.
YieldedOf(k) ==
    LET es == SelectSeq(log, LAMBDA e : e.src = k)
    IN  [i \in 1..Len(es) |-> es[i].path]

SourceDone(k) ==
    \/ srcIdx > k
    \/ srcIdx = k /\ pc \in {"loop", "done"}

KindsStable == \A p \in Paths : KindOf(fs, p) = KindOf(fs0, p)

\* C8: while no path changes kind, a source naming a directory yields only
\* regular files below it, each once, and all of them when it is exhausted;
\* a source naming a regular file yields that path and nothing else; a glob
\* yields only paths of the expansions of its matches and all of them when
\* exhausted.
C8_ResolverYields ==
    \A k \in 1..Len(sources) :
       (k <= srcIdx /\ KindsStable) =>
          LET src == sources[k]
              y == YieldedOf(k)
              expected ==
                 CASE isdir(fs0, src) -> RegularFilesUnder(fs0, src)
                   [] isfile(fs0, src) -> {src}
                   [] OTHER -> UNION {ExpansionOf(fs0, m) : m \in Range(glob(fs0, src))}
          IN  /\ Range(y) \subseteq expected
              /\ Len(y) = Cardinality(Range(y))
              /\ SourceDone(k) => Range(y) = expected

\* C9 (as stated): a file without preamble and DICM marker that holds a
\* dataset is not skipped as unrecognized, and is processed like any other
\* in a run that ends normally.
C9_NonStrictRead ==
    \A i \in Idx :
       log[i].fmt = "nopreamble" =>
          /\ ~Skipped(i)
          /\ pc = "done" => Completed(i)

\* C9 (amended): files are read with force=False: a file without preamble
\* and DICM marker raises InvalidDicomError and is skipped (no dataset, not
\* anonymized, not written, not recorded) even when it holds a dataset; only
\* a file that has them is parsed.
C9_StrictRead ==
    \A i \in Idx :
       /\ log[i].fmt \in {"nopreamble", "garbage"} =>
             Skipped(i) /\ ~log[i].read /\ ~log[i].anonymized
                        /\ ~log[i].written /\ ~log[i].recorded
       /\ log[i].read => log[i].fmt = "dicom"

C9_Witness ==
    /\ pc = "done"
    /\ \E i, j \in Idx :
          /\ log[i].fmt = "nopreamble"
          /\ Skipped(i)
          /\ fs[log[i].path] = fs0[log[i].path]
          /\ i < j
          /\ Completed(j)

\* A source that names nothing to process: not a file, not a directory, and
\* no glob match that is one.
ResolvesToNothing(f, src) ==
    /\ ~isfile(f, src)
    /\ ~isdir(f, src)
    /\ \A m \in Range(glob(f, src)) : ~isfile(f, m) /\ ~isdir(f, m)

\* C10: expanding a source never ends in an error, and a source that is
\* neither a file nor a directory and whose glob matches hold neither yields
\* no path.
C10_ExpandTerminates ==
    /\ error # "RecursionError"
    /\ \A k \in 1..Len(sources) :
          (SourceDone(k) /\ ResolvesToNothing(fs0, sources[k])) => YieldedOf(k) = <<>>

=============================================================================
